---- MODULE Spec2Model ----
(***************************************************************************)
(* Model of app.py, the Streamlit trading assistant: session state, the    *)
(* script run that every user interaction triggers, the brokerage and LLM  *)
(* collaborators as nondeterministic outcomes, and resolve_symbol as a     *)
(* pure function on character sequences.                                   *)
(***************************************************************************)
EXTENDS Integers, Sequences, FiniteSets, TLC

VARIABLES
    cfg,        \* secrets: [secret, openai, account]
    ss,         \* st.session_state: [token, account_id, quote_history, last_order_id, dialog]
    srv,        \* brokerage side: [expired] (cached token past its validity window)
    ui,         \* widget state and what the last run rendered
    run,        \* trace of the last script run: trigger, calls, messages, order body
    ids,        \* [oid, clock]: uuid4 values and timestamps handed out so far
    rs          \* one application of resolve_symbol (SpecResolve)

vars == <<cfg, ss, srv, ui, run, ids, rs>>

(***************************************************************************)
(* Python values.  An optional value is a sequence of length 0 or 1.       *)
(***************************************************************************)
None == << >>
Some(x) == <<x>>
IsNone(o) == o = None
Val(o) == o[1]

(***************************************************************************)
(* Text is a sequence of one-character strings.                            *)
(***************************************************************************)
LowerAlpha == <<"a","b","c","d","e","f","g","h","i","j","k","l","m",
                "n","o","p","q","r","s","t","u","v","w","x","y","z">>
UpperAlpha == <<"A","B","C","D","E","F","G","H","I","J","K","L","M",
                "N","O","P","Q","R","S","T","U","V","W","X","Y","Z">>
AlphaIdx == 1..26
IsLowerCh(c) == \E i \in AlphaIdx : LowerAlpha[i] = c
IsUpperCh(c) == \E i \in AlphaIdx : UpperAlpha[i] = c
IsSpaceCh(c) == c \in {" ", "\t", "\n"}

UpperCh(c) ==
    IF IsLowerCh(c) THEN UpperAlpha[CHOOSE i \in AlphaIdx : LowerAlpha[i] = c] ELSE c
LowerCh(c) ==
    IF IsUpperCh(c) THEN LowerAlpha[CHOOSE i \in AlphaIdx : UpperAlpha[i] = c] ELSE c

\* str.upper / str.lower
Upper(s) == [i \in 1..Len(s) |-> UpperCh(s[i])]
Lower(s) == [i \in 1..Len(s) |-> LowerCh(s[i])]

RECURSIVE LStrip(_)
LStrip(s) == IF s # << >> /\ IsSpaceCh(Head(s)) THEN LStrip(Tail(s)) ELSE s
RECURSIVE RStrip(_)
RStrip(s) ==
    IF s # << >> /\ IsSpaceCh(s[Len(s)]) THEN RStrip(SubSeq(s, 1, Len(s) - 1)) ELSE s
\* str.strip
Strip(s) == RStrip(LStrip(s))

\* needle in hay
Contains(hay, needle) ==
    \E i \in 0..(Len(hay) - Len(needle)) : SubSeq(hay, i + 1, i + Len(needle)) = needle

(***************************************************************************)
(* list_instruments: follow nextPageToken from the first page, collecting  *)
(* every page's instruments.  pages[k] is what the server returns for page *)
(* token k (the first request carries no token and gets pages[1]).         *)
(***************************************************************************)
RECURSIVE FetchPages(_, _, _)
FetchPages(pages, k, out) ==
    LET j == pages[k]
        out2 == out \o j.instruments
    IN  IF IsNone(j.nextPageToken) THEN out2
        ELSE FetchPages(pages, Val(j.nextPageToken), out2)

list_instruments(pages) == FetchPages(pages, 1, << >>)

\* re.fullmatch(r"[A-Za-z\.-]{1,8}", s)
TICKER_MAX == 8
TickerPattern(s) ==
    /\ Len(s) >= 1
    /\ Len(s) <= TICKER_MAX
    /\ \A i \in 1..Len(s) : IsLowerCh(s[i]) \/ IsUpperCh(s[i]) \/ s[i] \in {".", "-"}

\* (it.get("name") or "")
NameOf(it) == IF IsNone(it.name) THEN << >> ELSE Val(it.name)

\* the for loop of resolve_symbol over the listing, from position i
RECURSIVE ScanInstruments(_, _, _)
ScanInstruments(listing, s, i) ==
    IF i > Len(listing) THEN None
    ELSE LET it == listing[i] IN
         IF it.type # "EQUITY" THEN ScanInstruments(listing, s, i + 1)
         ELSE IF Upper(it.symbol) = Upper(s) THEN Some(it.symbol)
         ELSE IF Contains(Lower(NameOf(it)), Lower(s)) THEN Some(it.symbol)
         ELSE ScanInstruments(listing, s, i + 1)

\* A plausible slip: the uppercase test of the fast path dropped.
resolve_symbol_nocase(symbol_or_name, listed) ==
    LET s == Strip(symbol_or_name) IN
    IF TickerPattern(s)
    THEN [ret |-> Some(Upper(s)), listed |-> FALSE, raised |-> FALSE]
    ELSE IF ~listed.ok
         THEN [ret |-> None, listed |-> TRUE, raised |-> TRUE]
         ELSE [ret |-> ScanInstruments(list_instruments(listed.pages), s, 1),
               listed |-> TRUE, raised |-> FALSE]

\* resolve_symbol(token, symbol_or_name).  listed is what the instrument
\* listing answers if it is asked: [ok, pages].  The result says what is
\* returned, whether the listing was called and whether that call raised.
resolve_symbol(symbol_or_name, listed) ==
    LET s == Strip(symbol_or_name) IN
    IF TickerPattern(s) /\ Upper(s) = s
    THEN [ret |-> Some(Upper(s)), listed |-> FALSE, raised |-> FALSE]
    ELSE IF ~listed.ok
         THEN [ret |-> None, listed |-> TRUE, raised |-> TRUE]
         ELSE [ret |-> ScanInstruments(list_instruments(listed.pages), s, 1),
               listed |-> TRUE, raised |-> FALSE]

(***************************************************************************)
(* Bounds of the model.                                                    *)
(***************************************************************************)
MaxLen == 3         \* characters of a typed symbol or name (SpecResolve)
MaxInstr == 2       \* instruments the listing returns (SpecResolve)
MaxOrders == 1      \* uuid4 order ids handed out
MaxClock == 1       \* timestamps handed out to quote prints
MaxDialog == 1      \* turns kept in session_state.dialog
MaxAuthFails == 0   \* HTTP failures of get_access_token before its final outcome

HIST_KEEP == 300    \* hist[-300:]

Tok == "tok"
Acc == "ACC"

(***************************************************************************)
(* JSON values of a quote: a number, a string or null.                     *)
(***************************************************************************)
Num(n) == [t |-> "num", v |-> n]
Txt(s) == [t |-> "str", v |-> s]
Null == [t |-> "null", v |-> 0]
\* Python truthiness of a JSON value
Truthy(j) ==
    CASE j.t = "num" -> j.v # 0
      [] j.t = "str" -> j.v # << >>
      [] OTHER -> FALSE
\* a or b
Or(a, b) == IF Truthy(a) THEN a ELSE b
\* float(x) of a number
Float(n) == [t |-> "float", v |-> n]
\* str(x) of a number
Str(n) == [t |-> "str", v |-> n]

\* quote.get("last") or quote.get("lastPrice") or quote.get("price") or quote.get("closePrice")
LastOf(quote) == Or(Or(Or(quote.last, quote.lastPrice), quote.price), quote.closePrice)

\* A plausible slip: the slice taken from the wrong end, hist[:300].
KeepLast_head(hist, n) == IF Len(hist) <= n THEN hist ELSE SubSeq(hist, 1, n)

\* hist[-300:]
KeepLast(hist, n) == IF Len(hist) <= n THEN hist ELSE SubSeq(hist, Len(hist) - n + 1, Len(hist))

(***************************************************************************)
(* A script run threads a context through the page, top to bottom: the     *)
(* session state, the brokerage's view of the token, the script's locals   *)
(* (token, account_id, sym), what has been rendered, the calls made and    *)
(* messages shown, and whether the script is still running ("run"), was    *)
(* stopped by st.stop() ("stop") or died of an uncaught exception ("exc"). *)
(***************************************************************************)
NoClick == [widget |-> "none", label |-> 0]
Click(w, l) == [widget |-> w, label |-> l]

\* i: what the script reads besides the session: ids handed out so far and
\* the toggles' values.
StartCtx(s, sv, i) ==
    [token |-> s.token, account_id |-> s.account_id, quote_history |-> s.quote_history,
     last_order_id |-> s.last_order_id, dialog |-> s.dialog,
     expired |-> sv.expired, oid |-> i.oid, clock |-> i.clock,
     live |-> i.live, orders_live |-> i.orders_live,
     l_token |-> None, l_account |-> None, sym |-> None,
     rendered |-> {}, place |-> None,
     calls |-> << >>, msgs |-> << >>, parsed |-> None, body |-> None, status |-> None,
     metric |-> None, nTok |-> 0, st |-> "run", ret |-> None]

Called(c, api, out) == [c EXCEPT !.calls = Append(@, [api |-> api, out |-> out])]
LastOut(c) == c.calls[Len(c.calls)].out
Show(c, m) == [c EXCEPT !.msgs = Append(@, m)]
Render(c, w) == [c EXCEPT !.rendered = @ \cup {w}]
Raise(c) == [c EXCEPT !.st = "exc"]
Stop(c) == [c EXCEPT !.st = "stop"]
Ret(c, v) == [c EXCEPT !.ret = v]
Running(c) == c.st = "run"
\* Python truthiness of an optional text
Falsy(x) == IsNone(x) \/ Val(x) = << >>

\* st.button(label): true only in the run its own click triggered
st_button(widget, label, click) == click = Click(widget, label)

\* The n-th get_access_token call of a run.
AuthOutcome(o, n) == IF n <= o.authFails THEN "http" ELSE o.authFinal

\* What a brokerage call made with the cached token answers: 401 once the
\* token is past its validity window, else what the service decides.
Answer(c, out) == IF c.expired THEN "http" ELSE out

\* lines 231-236: get_access_token has answered (the last call of c)
TokenAnswered(c) ==
    CASE LastOut(c) = "ok" -> Ret([c EXCEPT !.token = Some(Tok), !.expired = FALSE], Some(Tok))
      [] LastOut(c) = "http" -> Ret(Show(c, "AuthFailed"), None)
      [] OTHER -> Raise(c)

\* A plausible slip: the cached token not consulted.
ensure_auth_nocache(c, o) ==
    IF ~cfg.secret THEN Ret(Show(c, "MissingSecret"), None)
    ELSE TokenAnswered(Called([c EXCEPT !.nTok = @ + 1], "token", AuthOutcome(o, c.nTok + 1)))

ensure_auth(c, o) ==
    IF ~IsNone(c.token) THEN Ret(c, c.token)
    ELSE IF ~cfg.secret THEN Ret(Show(c, "MissingSecret"), None)
    ELSE TokenAnswered(Called([c EXCEPT !.nTok = @ + 1], "token", AuthOutcome(o, c.nTok + 1)))

\* lines 243-248: get_brokerage_account_id has answered (the last call of c)
AccountAnswered(c) ==
    IF LastOut(c) = "ok"
    THEN Ret([c EXCEPT !.account_id = Some(Acc)], Some(Acc))
    ELSE Ret(Show(c, "AccountFailed"), None)

\* lines 241-248, after token = ensure_auth()
AccountLookup(a, o) ==
    IF ~Running(a) THEN a
    ELSE IF IsNone(a.ret) THEN Ret(a, None)
    ELSE AccountAnswered(Called(a, "account", Answer(a, o.account)))

ensure_account_id(c, o) ==
    IF ~IsNone(c.account_id) THEN Ret(c, c.account_id)
    ELSE AccountLookup(ensure_auth(c, o), o)

\* token = ensure_auth(); account_id = ensure_account_id()
AsToken(a) == [a EXCEPT !.l_token = a.ret]
AsAccount(b) == [b EXCEPT !.l_account = b.ret]
AccountStep(a, o) == IF Running(a) THEN AsAccount(ensure_account_id(a, o)) ELSE a
AuthAndAccount(c, o) == AccountStep(AsToken(ensure_auth(c, o)), o)

(***************************************************************************)
(* Sidebar (lines 255-275)                                                 *)
(***************************************************************************)
Authenticated(a, m) == IF Running(a) /\ ~IsNone(a.ret) THEN Show(a, m) ELSE a

SidebarAuth(c, click, o) ==
    IF st_button("auth", 0, click)
    THEN Authenticated(ensure_auth([c EXCEPT !.token = None], o), "Authenticated")
    ELSE c

SidebarAccount(c, click, o) ==
    IF ~Running(c) THEN c
    ELSE IF st_button("acct", 0, click)
    THEN Authenticated(ensure_account_id(Render(c, "acct"), o), "Account")
    ELSE Render(c, "acct")

Sidebar(c, click, o) == SidebarAccount(SidebarAuth(Render(c, "auth"), click, o), click, o)

\* st.autorefresh(...): the streamlit module has no attribute autorefresh
\* (the timer lives in the separate streamlit_autorefresh package), so the
\* call raises AttributeError and ends the run.
autorefresh(c) == Raise(c)

(***************************************************************************)
(* Symbol resolution and quote as the tabs call them                       *)
(***************************************************************************)
\* sym = resolve_symbol(token, text): r is what resolve_symbol did
Resolved(c, r) ==
    [(IF r.listed THEN Called(c, "instruments", IF r.raised THEN "fail" ELSE "ok") ELSE c)
        EXCEPT !.sym = r.ret, !.st = IF r.raised THEN "exc" ELSE @]

Resolve(c, text, o) ==
    Resolved(c, resolve_symbol(text, [ok |-> Answer(c, o.listing.out) = "ok",
                                      pages |-> o.listing.pages]))

\* get_equity_quote(token, account_id, sym)
QuoteCall(c, o) == Called(c, "quote", Answer(c, o.quote.out))

(***************************************************************************)
(* Quotes tab (lines 283-339)                                              *)
(***************************************************************************)
\* lines 311-320: the rolling per-session history
StoreQuote(c, sym, last, hist) ==
    [c EXCEPT !.clock = @ + 1,
              !.quote_history =
                  [k \in DOMAIN @ \cup {sym} |->
                      IF k # sym THEN @[k]
                      ELSE IF last.t = "num"
                           THEN KeepLast(Append(hist, <<c.clock + 1, Float(last.v)>>), HIST_KEEP)
                           ELSE hist]]

RecordQuote(c, sym, quote) ==
    StoreQuote(c, sym, LastOf(quote),
               IF sym \in DOMAIN c.quote_history THEN c.quote_history[sym] ELSE << >>)

\* c1.metric(f"{sym} Last", f"{last}")
Metric(c, sym, last) == [c EXCEPT !.metric = Some([sym |-> sym, last |-> last])]

\* lines 306-339, after get_equity_quote was called
QuoteAnswered(c, o) ==
    IF LastOut(c) # "ok" THEN Show(c, "QuoteFailed")
    ELSE IF IsNone(o.quote.quote) THEN Show(c, "NoQuote")
    ELSE Show(Metric(RecordQuote(c, Val(c.sym), Val(o.quote.quote)),
                     Val(c.sym), LastOf(Val(o.quote.quote))), "Quote")

\* lines 303-339, after resolve_symbol
QuoteResolved(c, o) ==
    IF ~Running(c) THEN c
    ELSE IF Falsy(c.sym) THEN Show(c, "Unresolved")
    ELSE QuoteAnswered(QuoteCall(c, o), o)

\* lines 298-339: the Get Quote handler
GetQuote(c, q_input, o) ==
    IF IsNone(c.l_token) \/ IsNone(c.l_account) \/ q_input = << >>
    THEN Show(c, "EnterSymbol")
    ELSE QuoteResolved(Resolve(c, q_input, o), o)

QuotesRefresh(c) == IF Running(c) /\ c.live THEN autorefresh(c) ELSE c

QuotesButton(c, click, inp, o) ==
    IF ~Running(c) THEN c
    ELSE IF st_button("getquote", 0, click)
    THEN GetQuote(Render(c, "getquote"), inp.q_input, o)
    ELSE Render(c, "getquote")

TabQuotes(c, click, inp, o) ==
    QuotesButton(QuotesRefresh(AuthAndAccount(Render(c, "live"), o)), click, inp, o)

(***************************************************************************)
(* Trade tab (lines 342-465)                                               *)
(***************************************************************************)
\* llm_phrase(text): the n-th call of the run raises when the LLM fails it
PhraseCount(c) == Len(SelectSeq(c.calls, LAMBDA x : x.api = "llm_phrase"))
llm_phrase(c, o) ==
    IF ~cfg.openai THEN c
    ELSE IF PhraseCount(c) + 1 = o.phraseFailAt THEN Raise(Called(c, "llm_phrase", "exc"))
    ELSE Called(c, "llm_phrase", "ok")

EmptyIntent ==
    [symbol |-> None, side |-> None, orderType |-> None, quantity |-> None,
     amount |-> None, limitPrice |-> None, stopPrice |-> None, tif |-> None]

\* parsed.get("intent") or {}
IntentOf(parsed) == IF IsNone(parsed.intent) THEN EmptyIntent ELSE Val(parsed.intent)
\* parsed.get("missing") or []
MissingOf(parsed) == IF IsNone(parsed.missing) THEN << >> ELSE Val(parsed.missing)

\* str(x) if x is not None
StrOpt(x) == IF IsNone(x) THEN None ELSE Some(Str(Val(x)))

\* A plausible slip: the time-in-force hard-wired.
TifOf_day(intent) == "DAY"

\* intent.get("tif") or "DAY"
TifOf(intent) ==
    IF IsNone(intent.tif) \/ Val(intent.tif) = "" THEN "DAY" ELSE Val(intent.tif)

\* lines 420-439: the order body
BuildBody(order_id, sym, intent) ==
    [orderId |-> order_id,
     instrument |-> [symbol |-> sym, type |-> "EQUITY"],
     orderSide |-> intent.side,
     orderType |-> intent.orderType,
     expiration |-> [timeInForce |-> TifOf(intent)],
     quantity |-> StrOpt(intent.quantity),
     amount |-> StrOpt(intent.amount),
     limitPrice |-> StrOpt(intent.limitPrice),
     stopPrice |-> StrOpt(intent.stopPrice)]

\* lines 459-465, after place_order was called
PlaceAnswered(c, order_id) ==
    CASE LastOut(c) = "ok" -> Show([c EXCEPT !.last_order_id = Some(order_id)], "OrderSubmitted")
      [] LastOut(c) = "http" -> Show(Show(c, "PlacementFailed"), "RejectionText")
      [] OTHER -> Raise(c)

\* lines 458-465: the Place Order button and its handler
PlaceOrder(c, click, o) ==
    IF st_button("place", c.oid, click)
    THEN PlaceAnswered(Called([Render(c, "place") EXCEPT !.place = Some(c.oid)],
                              "place", Answer(c, o.place)), c.oid)
    ELSE [Render(c, "place") EXCEPT !.place = Some(c.oid)]

\* after phrase_preflight
PreflightShown(c, click, o) ==
    IF ~Running(c) THEN c ELSE PlaceOrder(Show(c, "Preflight"), click, o)

\* A plausible slip: the st.stop() after a rejected preflight left out.
PreflightAnswered_nostop(c, click, o) ==
    CASE LastOut(c) = "ok" -> PreflightShown(llm_phrase(c, o), click, o)
      [] LastOut(c) = "http" ->
           PlaceOrder(Show(Show(c, "PreflightFailed"), "RejectionText"), click, o)
      [] OTHER -> Raise(c)

\* lines 447-465, after preflight_single_leg was called
PreflightAnswered(c, click, o) ==
    CASE LastOut(c) = "ok" -> PreflightShown(llm_phrase(c, o), click, o)
      [] LastOut(c) = "http" -> Stop(Show(Show(c, "PreflightFailed"), "RejectionText"))
      [] OTHER -> Raise(c)

\* lines 445-465: preflight, then the Place Order button
Preflight(c, click, o) ==
    IF ~Running(c) THEN c
    ELSE PreflightAnswered(Called(c, "preflight", Answer(c, o.preflight)), click, o)

\* lines 420-443: order id, body, review
Review(c, intent, o) ==
    llm_phrase(Show([c EXCEPT !.oid = @ + 1,
                              !.body = Some(BuildBody(c.oid + 1, Val(c.sym), intent))],
                    "Review"), o)

\* lines 417-465, after resolve_symbol
OrderResolved(c, intent, click, o) ==
    IF ~Running(c) THEN c
    ELSE IF Falsy(c.sym) THEN Show(c, "Unresolved")
    ELSE Preflight(Review(c, intent, o), click, o)

\* sym = resolve_symbol(token, symbol_input) if symbol_input else None
ResolveInput(c, symbol_input, o) ==
    IF Falsy(symbol_input) THEN [c EXCEPT !.sym = None] ELSE Resolve(c, Val(symbol_input), o)

\* lines 412-465, after ensure_auth and ensure_account_id
OrderAuthed(c, intent, click, o) ==
    IF ~Running(c) THEN c
    ELSE IF IsNone(c.l_token) \/ IsNone(c.l_account) THEN Stop(c)
    ELSE OrderResolved(ResolveInput(c, intent.symbol, o), intent, click, o)

\* lines 405-465: the ORDER flow
OrderFlow(c, parsed, click, o) ==
    IF MissingOf(parsed) # << >> THEN Show(c, "Missing")
    ELSE OrderAuthed(AuthAndAccount(c, o), IntentOf(parsed), click, o)

\* lines 397-400, after get_equity_quote returned a quote
QuotePhrased(c) == IF ~Running(c) THEN c ELSE Show(c, "Quote")

\* lines 393-400, after get_equity_quote was called
TradeQuoteAnswered(c, o) ==
    IF LastOut(c) # "ok" THEN Raise(c)
    ELSE IF IsNone(o.quote.quote) THEN Show(c, "NoQuote")
    ELSE QuotePhrased(llm_phrase(c, o))

\* lines 389-400, after resolve_symbol
TradeQuoteResolved(c, o) ==
    IF ~Running(c) THEN c
    ELSE IF Falsy(c.sym) THEN Show(c, "Unresolved")
    ELSE TradeQuoteAnswered(QuoteCall(c, o), o)

\* lines 387-400, after ensure_auth and ensure_account_id
TradeQuoteAuthed(c, qstr, o) ==
    IF ~Running(c) THEN c
    ELSE IF IsNone(c.l_token) \/ IsNone(c.l_account) THEN c
    ELSE TradeQuoteResolved(Resolve(c, Val(qstr), o), o)

\* lines 383-400, after the LLM was asked for the target security
SymbolAsked(c, o) ==
    IF LastOut(c) # "ok" THEN Raise(c)
    ELSE IF Falsy(o.ask.query) THEN Show(c, "SpecifySymbol")
    ELSE TradeQuoteAuthed(AuthAndAccount(c, o), o.ask.query, o)

\* lines 369-400: the QUOTE flow
QuoteFlow(c, o) == SymbolAsked(Called(c, "llm_symbol", o.ask.out), o)

\* lines 365-465, after llm_interpret
Interpreted(c, click, o) ==
    IF LastOut(c) # "ok" THEN Raise(c)
    ELSE IF o.llm.parsed.type = "QUOTE" THEN QuoteFlow([c EXCEPT !.parsed = Some(o.llm.parsed)], o)
    ELSE IF o.llm.parsed.type = "ASK" THEN Show([c EXCEPT !.parsed = Some(o.llm.parsed)], "Question")
    ELSE OrderFlow([c EXCEPT !.parsed = Some(o.llm.parsed)], o.llm.parsed, click, o)

\* lines 356-465: the Parse Intent handler
ParseIntent(c, nl, click, o) ==
    IF Strip(nl) = << >> THEN Show(c, "EnterInstruction")
    ELSE IF ~cfg.openai THEN Show(c, "OpenAIKeyMissing")
    ELSE Interpreted(Called([c EXCEPT !.dialog = Append(@, nl)], "llm_interpret", o.llm.out),
                     click, o)

\* lines 353-354
Clear(c, click) == IF st_button("clear", 0, click) THEN [c EXCEPT !.dialog = << >>] ELSE c

TradeButtons(c, click, inp, o) ==
    IF st_button("parse", 0, click) THEN ParseIntent(c, inp.nl, click, o) ELSE c

TabTrade(c, click, inp, o) ==
    TradeButtons(Clear(Render(Render(c, "parse"), "clear"), click), click, inp, o)

(***************************************************************************)
(* Orders tab (lines 468-497)                                              *)
(***************************************************************************)
\* lines 493-497: phrase_final inside the try
StatusPhrased(c, status) ==
    IF Running(c) THEN Show([c EXCEPT !.status = Some(status)], "Status")
    ELSE Show([c EXCEPT !.st = "run"], "StatusFailed")

\* lines 486-497, after get_order was called
StatusAnswered(c, o) ==
    CASE LastOut(c) = "ok" -> StatusPhrased(llm_phrase(c, o), o.status.status)
      [] LastOut(c) = "notfound" -> Show(c, "NoStatus")
      [] OTHER -> Show(c, "StatusFailed")

\* lines 480-497: the Fetch Status handler
FetchStatus(c, order_id_input, o) ==
    IF IsNone(c.l_token) \/ IsNone(c.l_account) \/ IsNone(order_id_input)
    THEN Show(c, "EnterOrderId")
    ELSE StatusAnswered(Called(c, "order", Answer(c, o.status.out)), o)

OrdersRefresh(c) ==
    IF ~Running(c) THEN c
    ELSE IF c.orders_live THEN autorefresh(Render(c, "orders_live"))
    ELSE Render(c, "orders_live")

\* st.text_input("Order ID", value=last_order_id or ""), then Fetch Status
OrdersButton(c, click, inp, o) ==
    IF ~Running(c) THEN c
    ELSE IF st_button("fetch", 0, click)
    THEN FetchStatus(Render(c, "fetch"),
                     IF IsNone(inp.order_id) THEN c.last_order_id ELSE inp.order_id, o)
    ELSE Render(c, "fetch")

TabOrders(c, click, inp, o) ==
    OrdersButton(OrdersRefresh(AuthAndAccount(c, o)), click, inp, o)

(***************************************************************************)
(* One run of the script, top to bottom.                                   *)
(***************************************************************************)
RunOrders(c, click, inp, o) == IF Running(c) THEN TabOrders(c, click, inp, o) ELSE c
RunTrade(c, click, inp, o) == IF Running(c) THEN TabTrade(c, click, inp, o) ELSE c
RunQuotes(c, click, inp, o) == IF Running(c) THEN TabQuotes(c, click, inp, o) ELSE c

ScriptRun(c, click, inp, o) ==
    RunOrders(RunTrade(RunQuotes(Sidebar(c, click, o), click, inp, o), click, inp, o),
              click, inp, o)

(***************************************************************************)
(* What the collaborators may answer, and what the user may type.          *)
(***************************************************************************)
NVDA == <<"N", "V", "D", "A">>
Nvid == <<"n", "v">>
Ford == <<"F">>
Blank == <<" ">>
BuyText == <<"b", "u", "y">>

OnePage(instruments) == <<[instruments |-> instruments, nextPageToken |-> None]>>
NvidiaCorp == [type |-> "EQUITY", symbol |-> NVDA, name |-> Some(<<"N", "v", "i", "d", "i", "a">>)]

Listings ==
    { [out |-> "fail", pages |-> OnePage(<< >>)],
      [out |-> "ok", pages |-> OnePage(<< >>)],
      [out |-> "ok", pages |-> OnePage(<<NvidiaCorp>>)] }

NoPrices == [last |-> Null, lastPrice |-> Null, price |-> Null, closePrice |-> Null]
Quotes ==
    { [out |-> "fail", quote |-> None],
      [out |-> "ok", quote |-> None],
      [out |-> "ok", quote |-> Some([NoPrices EXCEPT !.last = Num(101)])],
      [out |-> "ok", quote |-> Some([NoPrices EXCEPT !.last = Txt(<<"1">>)])],
      [out |-> "ok", quote |-> Some([NoPrices EXCEPT !.closePrice = Num(95)])] }

Limit5 ==
    [symbol |-> Some(NVDA), side |-> Some("BUY"), orderType |-> Some("LIMIT"),
     quantity |-> Some(5), amount |-> None, limitPrice |-> Some(190),
     stopPrice |-> None, tif |-> Some("GTC")]

Intents ==
    { Limit5,
      [Limit5 EXCEPT !.orderType = Some("MARKET"), !.limitPrice = None,
                     !.quantity = None, !.amount = Some(500), !.tif = Some("DAY")],
      [Limit5 EXCEPT !.orderType = Some("STOP_LIMIT")],
      [Limit5 EXCEPT !.amount = Some(500)],
      [Limit5 EXCEPT !.quantity = None],
      [Limit5 EXCEPT !.tif = None],
      [Limit5 EXCEPT !.tif = Some("")],
      [Limit5 EXCEPT !.side = None, !.orderType = Some("STOP"), !.limitPrice = None,
                     !.stopPrice = Some(180)],
      [Limit5 EXCEPT !.symbol = None],
      [Limit5 EXCEPT !.symbol = Some(Nvid)] }

NoParse == [type |-> "ASK", missing |-> None, intent |-> None]
LlmResults ==
    { [out |-> "exc", parsed |-> NoParse],
      [out |-> "ok", parsed |-> NoParse],
      [out |-> "ok", parsed |-> [NoParse EXCEPT !.type = "QUOTE"]],
      [out |-> "ok", parsed |-> [type |-> "ORDER", missing |-> None, intent |-> None]],
      \* a type the prompt's schema does not name: the dispatch's else takes it
      [out |-> "ok", parsed |-> [type |-> "TRADE", missing |-> None, intent |-> Some(Limit5)]],
      [out |-> "ok", parsed |-> [type |-> "ORDER", missing |-> Some(<<"tif">>),
                                 intent |-> Some([Limit5 EXCEPT !.tif = None])]] }
    \cup { [out |-> "ok", parsed |-> [type |-> "ORDER", missing |-> Some(<< >>),
                                      intent |-> Some(i)]] : i \in Intents }

AskResults ==
    { [out |-> "exc", query |-> None], [out |-> "ok", query |-> None],
      [out |-> "ok", query |-> Some(NVDA)], [out |-> "ok", query |-> Some(Nvid)] }

Statuses == {"NEW", "FILLED", "REPLACED"}
StatusResults ==
    { [out |-> "fail", status |-> "NEW"], [out |-> "notfound", status |-> "NEW"] }
    \cup { [out |-> "ok", status |-> s] : s \in Statuses }

AuthScripts ==
    { [authFails |-> k, authFinal |-> f] : k \in 0..MaxAuthFails, f \in {"ok", "exc"} }
    \cup { [authFails |-> 0, authFinal |-> "http"] }

\* Every collaborator answering, nothing to report.
Calm ==
    [authFails |-> 0, authFinal |-> "ok", account |-> "ok",
     listing |-> [out |-> "ok", pages |-> OnePage(<< >>)],
     quote |-> [out |-> "ok", quote |-> None],
     llm |-> [out |-> "ok", parsed |-> NoParse],
     ask |-> [out |-> "ok", query |-> None],
     phraseFailAt |-> 0, preflight |-> "ok", place |-> "ok",
     status |-> [out |-> "notfound", status |-> "NEW"]]

NoInput == [q_input |-> << >>, nl |-> << >>, order_id |-> None]

\* The outcomes of the calls every run may make: token and account lookup.
\* A call the run cannot make gets the one outcome of Calm.
AuthChoices(click) ==
    IF cfg.secret /\ (IsNone(ss.token) \/ click.widget = "auth")
    THEN AuthScripts ELSE {[authFails |-> 0, authFinal |-> "ok"]}
AccountChoices == IF cfg.secret /\ IsNone(ss.account_id) THEN {"ok", "fail"} ELSE {"ok"}

Base(au, ac) == [Calm EXCEPT !.authFails = au.authFails, !.authFinal = au.authFinal, !.account = ac]

(***************************************************************************)
(* State after construction: the session defaults of lines 219-223, both   *)
(* toggles on (value=True), nothing rendered yet.                          *)
(***************************************************************************)
IdleRun ==
    [click |-> NoClick, calls |-> << >>, msgs |-> << >>, parsed |-> None, body |-> None,
     status |-> None, metric |-> None, st |-> "run", pre |-> [token |-> None, account_id |-> None,
     quote_history |-> << >>, last_order_id |-> None, dialog |-> << >>], preExpired |-> FALSE]

IdleRs == [text |-> << >>, ok |-> TRUE, pages |-> OnePage(<< >>), done |-> FALSE,
           ret |-> None, listed |-> FALSE, raised |-> FALSE]

InitSession(account) ==
    [token |-> None, account_id |-> account, quote_history |-> << >>,
     last_order_id |-> None, dialog |-> << >>]

Init ==
    /\ cfg \in [secret : BOOLEAN, openai : BOOLEAN, account : {None, Some(Acc)}]
    /\ ss = InitSession(cfg.account)
    /\ srv = [expired |-> FALSE]
    /\ ui = [live |-> TRUE, orders_live |-> TRUE, rendered |-> {}, place |-> None]
    /\ run = [IdleRun EXCEPT !.pre = ss]
    /\ ids = [oid |-> 0, clock |-> 0]
    /\ rs = IdleRs

\* The context a run ended with, committed to the state.
Commit(c, click) ==
    /\ c.oid <= MaxOrders
    /\ c.clock <= MaxClock
    /\ Len(c.dialog) <= MaxDialog
    /\ ss' = [token |-> c.token, account_id |-> c.account_id,
              quote_history |-> c.quote_history, last_order_id |-> c.last_order_id,
              dialog |-> c.dialog]
    /\ srv' = [expired |-> c.expired]
    /\ ui' = [live |-> c.live, orders_live |-> c.orders_live,
              rendered |-> c.rendered, place |-> c.place]
    /\ run' = [click |-> click, calls |-> c.calls, msgs |-> c.msgs, parsed |-> c.parsed,
               body |-> c.body, status |-> c.status, metric |-> c.metric, st |-> c.st,
               pre |-> ss, preExpired |-> srv.expired]
    /\ ids' = [oid |-> c.oid, clock |-> c.clock]
    /\ UNCHANGED <<cfg, rs>>

\* The run triggered by `click` with the toggles at (live, orders_live).
Rerun(click, live, orders_live, inp, o) ==
    Commit(ScriptRun(StartCtx(ss, srv, [oid |-> ids.oid, clock |-> ids.clock,
                                        live |-> live, orders_live |-> orders_live]),
                     click, inp, o),
           click)

\* First load, or a text input committed.
PageRun ==
    \E au \in AuthChoices(NoClick), ac \in AccountChoices :
        Rerun(NoClick, ui.live, ui.orders_live, NoInput, Base(au, ac))

ToggleLive ==
    /\ "live" \in ui.rendered
    /\ \E au \in AuthChoices(NoClick), ac \in AccountChoices :
        Rerun(NoClick, ~ui.live, ui.orders_live, NoInput, Base(au, ac))

ToggleOrdersLive ==
    /\ "orders_live" \in ui.rendered
    /\ \E au \in AuthChoices(NoClick), ac \in AccountChoices :
        Rerun(NoClick, ui.live, ~ui.orders_live, NoInput, Base(au, ac))

ClickAuthenticate ==
    /\ "auth" \in ui.rendered
    /\ \E au \in AuthChoices(Click("auth", 0)), ac \in AccountChoices :
        Rerun(Click("auth", 0), ui.live, ui.orders_live, NoInput, Base(au, ac))

ClickResolveAccount ==
    /\ "acct" \in ui.rendered
    /\ \E au \in AuthChoices(Click("acct", 0)), ac \in AccountChoices :
        Rerun(Click("acct", 0), ui.live, ui.orders_live, NoInput, Base(au, ac))

ClickGetQuote ==
    /\ "getquote" \in ui.rendered
    /\ \E au \in AuthChoices(Click("getquote", 0)), ac \in AccountChoices,
          q \in {<< >>, NVDA, Nvid, Ford} :
       \E li \in (IF q = Nvid THEN Listings ELSE {Calm.listing}),
          qu \in (IF q = << >> \/ ids.clock = MaxClock THEN {Calm.quote} ELSE Quotes) :
        Rerun(Click("getquote", 0), ui.live, ui.orders_live, [NoInput EXCEPT !.q_input = q],
              [Base(au, ac) EXCEPT !.listing = li, !.quote = qu])

\* Whether the run a parse result starts gets as far as a symbol lookup,
\* a quote, the order review: the calls beyond get no outcome to choose.
Looks(llm, ask) ==
    \/ llm.parsed.type = "QUOTE" /\ ask.query = Some(Nvid)
    \/ llm.parsed.type \notin {"QUOTE", "ASK"} /\ MissingOf(llm.parsed) = << >>
          /\ IntentOf(llm.parsed).symbol = Some(Nvid)
Quotes_(llm, ask) == llm.parsed.type = "QUOTE" /\ ~Falsy(ask.query)
Reviews(llm) ==
    /\ ids.oid < MaxOrders
    /\ llm.out = "ok"
    /\ llm.parsed.type \notin {"QUOTE", "ASK"}
    /\ MissingOf(llm.parsed) = << >>
    /\ ~Falsy(IntentOf(llm.parsed).symbol)

ClickParse ==
    /\ "parse" \in ui.rendered
    /\ \E au \in AuthChoices(Click("parse", 0)), ac \in AccountChoices,
          nl \in {Blank} \cup (IF Len(ss.dialog) < MaxDialog THEN {BuyText} ELSE {}) :
       \E llm \in (IF nl = Blank \/ ~cfg.openai THEN {Calm.llm} ELSE LlmResults) :
       \E ask \in (IF llm.out = "ok" /\ llm.parsed.type = "QUOTE" THEN AskResults ELSE {Calm.ask}) :
       \E li \in (IF Looks(llm, ask) THEN Listings ELSE {Calm.listing}),
          qu \in (IF Quotes_(llm, ask) THEN Quotes ELSE {Calm.quote}),
          pf \in (IF Reviews(llm) THEN {"ok", "http", "exc"} ELSE {"ok"}),
          ph \in (IF Reviews(llm) THEN 0..2 ELSE IF Quotes_(llm, ask) THEN 0..1 ELSE {0}) :
        Rerun(Click("parse", 0), ui.live, ui.orders_live, [NoInput EXCEPT !.nl = nl],
              [Base(au, ac) EXCEPT !.llm = llm, !.ask = ask, !.listing = li, !.quote = qu,
                                   !.preflight = pf, !.phraseFailAt = ph])

ClickClear ==
    /\ "clear" \in ui.rendered
    /\ \E au \in AuthChoices(Click("clear", 0)), ac \in AccountChoices :
        Rerun(Click("clear", 0), ui.live, ui.orders_live, NoInput, Base(au, ac))

\* The Place Order button of the last run, labelled with its order id.
ClickPlaceOrder ==
    /\ "place" \in ui.rendered
    /\ \E au \in AuthChoices(Click("place", Val(ui.place))), ac \in AccountChoices,
          pl \in {"ok", "http", "exc"} :
        Rerun(Click("place", Val(ui.place)), ui.live, ui.orders_live, NoInput,
              [Base(au, ac) EXCEPT !.place = pl])

ClickFetchStatus ==
    /\ "fetch" \in ui.rendered
    /\ \E au \in AuthChoices(Click("fetch", 0)), ac \in AccountChoices,
          oid \in {None} \cup {Some(k) : k \in 1..MaxOrders}, sr \in StatusResults,
          ph \in 0..1 :
        Rerun(Click("fetch", 0), ui.live, ui.orders_live, [NoInput EXCEPT !.order_id = oid],
              [Base(au, ac) EXCEPT !.status = sr, !.phraseFailAt = ph])

\* The token's validity window (15 minutes) runs out at the brokerage.
TokenExpires ==
    /\ ~IsNone(ss.token)
    /\ ~srv.expired
    /\ srv' = [expired |-> TRUE]
    /\ UNCHANGED <<cfg, ss, ui, run, ids, rs>>

Next ==
    \/ PageRun
    \/ ToggleLive
    \/ ToggleOrdersLive
    \/ ClickAuthenticate
    \/ ClickResolveAccount
    \/ ClickGetQuote
    \/ ClickParse
    \/ ClickClear
    \/ ClickPlaceOrder
    \/ ClickFetchStatus
    \/ TokenExpires

Spec == Init /\ [][Next]_vars

\* The trade tab with everything that feeds it: authentication, account,
\* toggles, expiry.  Quotes and order tracking touch none of its state.
NextTrade ==
    \/ PageRun
    \/ ToggleLive
    \/ ToggleOrdersLive
    \/ ClickAuthenticate
    \/ ClickResolveAccount
    \/ ClickParse
    \/ ClickClear
    \/ ClickPlaceOrder
    \/ TokenExpires

SpecTrade == Init /\ [][NextTrade]_vars

\* Quotes and order tracking, likewise.
NextTrack ==
    \/ PageRun
    \/ ToggleLive
    \/ ToggleOrdersLive
    \/ ClickAuthenticate
    \/ ClickResolveAccount
    \/ ClickGetQuote
    \/ ClickFetchStatus
    \/ TokenExpires

SpecTrack == Init /\ [][NextTrack]_vars

(***************************************************************************)
(* The Quotes tab late in a session: the session as earlier Get Quote      *)
(* prints left it (token and account cached, a symbol's history at or one  *)
(* short of the 300 kept), from where the page is rerun.  Earlier prints   *)
(* carry the timestamps up to 0, the clock goes on from there.             *)
(***************************************************************************)
Filled(n, latest) == [i \in 1..n |-> <<latest - n + i, Float(100 + (i % 3))>>]

FilledHistories ==
    { [s \in {NVDA} |-> Filled(HIST_KEEP, 0)],
      [s \in {NVDA, Ford} |->
          IF s = NVDA THEN Filled(HIST_KEEP - 1, 0) ELSE Filled(HIST_KEEP, 1 - HIST_KEEP)],
      [s \in {Ford} |-> << >>] }

InitHistory ==
    /\ cfg = [secret |-> TRUE, openai |-> TRUE, account |-> None]
    /\ \E h \in FilledHistories :
          ss = [InitSession(Some(Acc)) EXCEPT !.token = Some(Tok), !.quote_history = h]
    /\ srv = [expired |-> FALSE]
    /\ ui = [live |-> FALSE, orders_live |-> FALSE, rendered |-> {}, place |-> None]
    /\ run = [IdleRun EXCEPT !.pre = ss]
    /\ ids = [oid |-> 0, clock |-> 0]
    /\ rs = IdleRs

NextHistory ==
    \/ PageRun
    \/ ToggleLive
    \/ ClickAuthenticate
    \/ ClickGetQuote
    \/ TokenExpires

SpecHistory == InitHistory /\ [][NextHistory]_vars

(***************************************************************************)
(* resolve_symbol on its own (lines 75-99): Init draws the text and the    *)
(* paged listing the brokerage would answer, the one action applies the    *)
(* function.                                                               *)
(***************************************************************************)
Rep(ch, n) == [i \in 1..n |-> ch]

TypedChars == {"N", "n", "-", "1", " "}
RECURSIVE TextsUpTo(_)
TextsUpTo(n) ==
    IF n = 0 THEN {<< >>}
    ELSE LET prev == TextsUpTo(n - 1) IN
         prev \cup {Append(t, ch) : t \in {u \in prev : Len(u) = n - 1}, ch \in TypedChars}

\* texts around the length limit of the ticker pattern
LongTexts ==
    { Rep("N", TICKER_MAX), Rep("N", TICKER_MAX + 1), Rep("n", TICKER_MAX),
      <<" ">> \o Rep("N", TICKER_MAX) \o <<"\n">>,
      <<"N", ".", "N">> \o Rep("-", TICKER_MAX - 3),
      Rep(".", TICKER_MAX + 1) }

ResolveTexts == TextsUpTo(MaxLen) \cup LongTexts

ListedInstruments ==
    { [type |-> "EQUITY", symbol |-> <<"N">>, name |-> None],
      [type |-> "EQUITY", symbol |-> <<"n", "-">>, name |-> Some(<<"N", "n">>)],
      [type |-> "EQUITY", symbol |-> <<"N", "N">>, name |-> Some(<<"n", " ", "1", "N">>)],
      [type |-> "OPTION", symbol |-> <<"N">>, name |-> Some(<<"n">>)],
      [type |-> "EQUITY", symbol |-> <<"1">>, name |-> Some(<< >>)],
      [type |-> "EQUITY", symbol |-> Rep("N", TICKER_MAX + 1), name |-> None] }

RECURSIVE ListingsUpTo(_)
ListingsUpTo(n) ==
    IF n = 0 THEN {<< >>}
    ELSE LET prev == ListingsUpTo(n - 1) IN
         prev \cup {Append(l, it) : l \in {u \in prev : Len(u) = n - 1}, it \in ListedInstruments}

\* the listing served in one page, or in two with the first instrument alone
\* on the first page
Paged(l) ==
    IF l = << >> THEN {OnePage(l)}
    ELSE { OnePage(l),
           << [instruments |-> <<Head(l)>>, nextPageToken |-> Some(2)],
              [instruments |-> Tail(l), nextPageToken |-> None] >> }

ResolvePages == UNION {Paged(l) : l \in ListingsUpTo(MaxInstr)}

InitResolve ==
    /\ cfg = [secret |-> TRUE, openai |-> TRUE, account |-> None]
    /\ ss = InitSession(None)
    /\ srv = [expired |-> FALSE]
    /\ ui = [live |-> TRUE, orders_live |-> TRUE, rendered |-> {}, place |-> None]
    /\ run = IdleRun
    /\ ids = [oid |-> 0, clock |-> 0]
    /\ \E t \in ResolveTexts, ok \in BOOLEAN, pg \in ResolvePages :
          /\ (~ok => pg = OnePage(<< >>))
          /\ rs = [IdleRs EXCEPT !.text = t, !.ok = ok, !.pages = pg]

CallResolve ==
    /\ ~rs.done
    /\ LET r == resolve_symbol(rs.text, [ok |-> rs.ok, pages |-> rs.pages]) IN
       rs' = [rs EXCEPT !.done = TRUE, !.ret = r.ret, !.listed = r.listed,
                        !.raised = r.raised]
    /\ UNCHANGED <<cfg, ss, srv, ui, run, ids>>

NextResolve == CallResolve
SpecResolve == InitResolve /\ [][NextResolve]_vars

(***************************************************************************)
(* Reading the trace of the last run.                                      *)
(***************************************************************************)
CallsOf(api) == SelectSeq(run.calls, LAMBDA x : x.api = api)
Made(api) == \E i \in DOMAIN run.calls : run.calls[i].api = api
Failed(api) == \E i \in DOMAIN run.calls : run.calls[i].api = api /\ run.calls[i].out # "ok"
Shown(m) == \E i \in DOMAIN run.msgs : run.msgs[i] = m
TimesShown(m) == Len(SelectSeq(run.msgs, LAMBDA x : x = m))
\* calls that go to the brokerage with the bearer token
TokenBearing == {"account", "instruments", "quote", "preflight", "place", "order"}
Brokerage == TokenBearing \cup {"token"}
\* the order body of the run and the intent it was built from
SentBody == Val(run.body)
SentIntent == IntentOf(Val(run.parsed))
BodySent == Made("preflight") \/ Made("place")

(***************************************************************************)
(* C1.  After an order was built and its preflight succeeded, pressing the *)
(* Place Order button (a new script run) makes exactly one place_order     *)
(* call, with the order id the button carries, and a successful call       *)
(* records that id as last_order_id.                                       *)
(***************************************************************************)
C1_ConfirmPlacesOnce ==
    run.click.widget = "place" =>
        /\ Len(CallsOf("place")) = 1
        /\ ~IsNone(run.body)
        /\ SentBody.orderId = run.click.label
        /\ (~Failed("place") => ss.last_order_id = Some(run.click.label))

(***************************************************************************)
(* C2.  When the preflight call is rejected (HTTP error) or fails          *)
(* otherwise, the order attempt ends there: the script stops, the Place    *)
(* Order button is not offered, place_order is not called, nothing is      *)
(* recorded as submitted; a rejection shows "Preflight failed." and the    *)
(* raw response text, any other failure surfaces as the exception.         *)
(***************************************************************************)
C2_PreflightFailureEndsAttempt ==
    \A i \in DOMAIN run.calls :
        (run.calls[i].api = "preflight" /\ run.calls[i].out # "ok") =>
            /\ i = Len(run.calls)
            /\ "place" \notin ui.rendered
            /\ IsNone(ui.place)
            /\ ~Made("place")
            /\ ss.last_order_id = run.pre.last_order_id
            /\ IF run.calls[i].out = "http"
               THEN run.st = "stop" /\ Shown("PreflightFailed") /\ Shown("RejectionText")
               ELSE run.st = "exc"

C2_Witness ==
    /\ ~IsNone(run.body)
    /\ Failed("preflight")
    /\ Shown("RejectionText")
    /\ ~run.preExpired

(***************************************************************************)
(* C3.  An order reaches review (body built, preflight called, button      *)
(* offered) only when the intent itself holds every applicable field:      *)
(* symbol, side, orderType, limitPrice for LIMIT and STOP_LIMIT, stopPrice *)
(* for STOP and STOP_LIMIT, quantity or amount, tif.                       *)
(***************************************************************************)
Present(x) == ~IsNone(x)
AllApplicable(it) ==
    /\ Present(it.symbol)
    /\ Present(it.side)
    /\ Present(it.orderType)
    /\ (it.orderType \in {Some("LIMIT"), Some("STOP_LIMIT")} => Present(it.limitPrice))
    /\ (it.orderType \in {Some("STOP"), Some("STOP_LIMIT")} => Present(it.stopPrice))
    /\ (Present(it.quantity) \/ Present(it.amount))
    /\ Present(it.tif)

C3_ReviewOnlyWhenComplete ==
    (~IsNone(run.body) \/ Made("preflight") \/ "place" \in ui.rendered)
        => AllApplicable(SentIntent)

(***************************************************************************)
(* C4.  Every order body sent to preflight or placement carries exactly    *)
(* one of quantity and amount.                                             *)
(***************************************************************************)
C4_ExactlyOneOfQuantityAmount ==
    BodySent => (IsNone(SentBody.quantity) # IsNone(SentBody.amount))

SameNumber(sent, given) ==
    IF IsNone(given) THEN IsNone(sent) ELSE sent = Some(Str(Val(given)))

C6_FailedTurnLeavesSession ==
    (run.calls # << >> /\ \A i \in DOMAIN run.calls : run.calls[i].out # "ok")
        => ss = run.pre

(***************************************************************************)
(* C7.  With PUBLIC_API_SECRET missing the error is reported once in a     *)
(* page run and no brokerage call is made.                                 *)
(***************************************************************************)
C7_MissingSecretReportedOnce ==
    ~cfg.secret =>
        /\ TimesShown("MissingSecret") <= 1
        /\ \A i \in DOMAIN run.calls : run.calls[i].api \notin Brokerage

\* The part of C7 the code keeps: without the secret no run calls the brokerage.
NoSecretNoBrokerageCall ==
    ~cfg.secret => \A i \in DOMAIN run.calls : run.calls[i].api \notin Brokerage

(***************************************************************************)
(* C8 as stated: a run that starts with an expired token obtains a fresh   *)
(* one from get_access_token before it calls the brokerage.                *)
(***************************************************************************)
C8_ReacquiresOnExpiry ==
    \A i \in DOMAIN run.calls :
        (run.preExpired /\ run.calls[i].api \in TokenBearing) =>
            \E j \in 1..(i - 1) : run.calls[j] = [api |-> "token", out |-> "ok"]

(***************************************************************************)
(* C8 amended.  A cached token is never reacquired by the app itself:      *)
(* while session_state.token is set, only the run of the Authenticate /    *)
(* Refresh Token button calls get_access_token; every other run keeps the  *)
(* cached token, and once it has expired each brokerage call of such a run *)
(* fails.                                                                  *)
(***************************************************************************)
C8_RefreshOnlyOnButton ==
    (~IsNone(run.pre.token) /\ run.click.widget # "auth") =>
        /\ ~Made("token")
        /\ ss.token = run.pre.token
        /\ (run.preExpired =>
               \A i \in DOMAIN run.calls :
                   run.calls[i].api \in TokenBearing => run.calls[i].out # "ok")

C8_Witness ==
    /\ run.preExpired
    /\ run.click.widget = "getquote"
    /\ Failed("quote")
    /\ ss.token = run.pre.token
    /\ srv.expired

MinOf(S) == CHOOSE x \in S : \A y \in S : x <= y
MaxOf(S) == CHOOSE x \in S : \A y \in S : x >= y
Trimmed(x) ==
    LET inked == {i \in 1..Len(x) : x[i] \notin {" ", "\t", "\n"}} IN
    IF inked = {} THEN << >> ELSE SubSeq(x, MinOf(inked), MaxOf(inked))
CapitalLetters == {UpperAlpha[i] : i \in AlphaIdx}
BareTicker(t) ==
    /\ Len(t) \in 1..8
    /\ \A i \in 1..Len(t) : t[i] \in CapitalLetters \cup {".", "-"}
SameFolded(a, b) ==
    /\ Len(a) = Len(b)
    /\ \A i \in 1..Len(a) : LowerCh(a[i]) = LowerCh(b[i])
Occurs(t, name) ==
    \E k \in 0..(Len(name) - Len(t)) : \A j \in 1..Len(t) : LowerCh(name[k + j]) = LowerCh(t[j])
\* the listing in the order the pages are served
Served == IF Len(rs.pages) = 1 THEN rs.pages[1].instruments
          ELSE rs.pages[1].instruments \o rs.pages[2].instruments
Matching(t) ==
    { i \in 1..Len(Served) :
        /\ Served[i].type = "EQUITY"
        /\ \/ SameFolded(Served[i].symbol, t)
           \/ (~IsNone(Served[i].name) /\ Occurs(t, Val(Served[i].name)))
           \/ (IsNone(Served[i].name) /\ t = << >>) }

C9_ResolveSymbol ==
    rs.done =>
        IF BareTicker(Trimmed(rs.text))
        THEN rs.ret = Some(Trimmed(rs.text)) /\ ~rs.listed
        ELSE /\ rs.listed
             /\ rs.ok =>
                  /\ ~rs.raised
                  /\ IF Matching(Trimmed(rs.text)) = {} THEN rs.ret = None
                     ELSE rs.ret = Some(Served[MinOf(Matching(Trimmed(rs.text)))].symbol)

C9_Witness ==
    /\ rs.done
    /\ rs.listed
    /\ Len(rs.pages) = 2
    /\ rs.text = <<" ", "n", "n">>
    /\ rs.ret = Some(<<"n", "-">>)
    /\ Served[1].symbol = <<"N">>

C9_WitnessFastPath ==
    /\ rs.done
    /\ ~rs.listed
    /\ Len(rs.text) = TICKER_MAX + 2
    /\ rs.ret = Some(Rep("N", TICKER_MAX))

(***************************************************************************)
(* C11.  A parsed message is routed by the extractor's result to exactly   *)
(* one outcome: a QUOTE uses symbol resolution and a quote call and never  *)
(* builds, preflights or places an order; an ASK, or an ORDER with a       *)
(* non-empty missing list, only asks for more detail, calls neither the    *)
(* instrument listing nor quote, preflight or placement and builds no      *)
(* body; and only an ORDER with all fields present goes to order review    *)
(* (body built, preflight called).                                         *)
(***************************************************************************)
ParsedResult == Val(run.parsed)
RoutedToQuote == Made("llm_symbol") \/ Made("quote")
RoutedToReview == Present(run.body) \/ Made("preflight") \/ "place" \in ui.rendered
HandlerCalls == {"instruments", "quote", "preflight", "place"}
OnlyAsks ==
    /\ \A i \in DOMAIN run.calls : run.calls[i].api \notin HandlerCalls
    /\ ~RoutedToQuote
    /\ ~RoutedToReview
    /\ Shown("Question") \/ Shown("Missing")

C11_RoutedByResult ==
    Present(run.parsed) =>
        /\ ParsedResult.type = "QUOTE" => ~RoutedToReview /\ ~Made("place")
        /\ (\/ ParsedResult.type = "ASK"
            \/ ParsedResult.type = "ORDER" /\ MissingOf(ParsedResult) # << >>) => OnlyAsks
        /\ RoutedToReview =>
              /\ ParsedResult.type = "ORDER"
              /\ MissingOf(ParsedResult) = << >>
              /\ AllApplicable(IntentOf(ParsedResult))

\* The routing the dispatch of lines 368-411 does keep: QUOTE and ASK never
\* reach review, a non-empty missing list only asks, and review is reached
\* only by a result that is neither QUOTE nor ASK and has an empty missing
\* list, whatever its intent holds.
RoutedByTypeAndMissingList ==
    Present(run.parsed) =>
        /\ ParsedResult.type = "QUOTE" => ~RoutedToReview /\ ~Made("place")
        /\ (ParsedResult.type = "ASK" \/ MissingOf(ParsedResult) # << >>) =>
              (ParsedResult.type # "QUOTE" => OnlyAsks)
        /\ RoutedToReview =>
              /\ ParsedResult.type \notin {"QUOTE", "ASK"}
              /\ MissingOf(ParsedResult) = << >>
        /\ RoutedToQuote => ParsedResult.type = "QUOTE"

(***************************************************************************)
(* C12.  After any sequence of Get Quote actions every symbol's entry of   *)
(* quote_history holds at most 300 (timestamp, price) prints, in arrival   *)
(* order, and they are the most recent ones: a Get Quote whose last price  *)
(* (the value shown as "Last") is a number appends its print and drops     *)
(* only what is older than the 300 most recent; a quote whose last price   *)
(* is absent or not a number, and every other run, leaves the entry's      *)
(* prints as they were.                                                    *)
(***************************************************************************)
PrintsOf(h, sym) == IF sym \in DOMAIN h THEN h[sym] ELSE << >>
MostRecent(s, n) ==
    LET kept == IF Len(s) < n THEN Len(s) ELSE n IN
    [i \in 1..kept |-> s[Len(s) - kept + i]]

HistoryBounded ==
    \A sym \in DOMAIN ss.quote_history :
        /\ Len(ss.quote_history[sym]) <= 300
        /\ \A i \in 1..Len(ss.quote_history[sym]) :
              /\ ss.quote_history[sym][i][2].t = "float"
              /\ i > 1 => ss.quote_history[sym][i - 1][1] < ss.quote_history[sym][i][1]

\* the step printed a numeric last price for sym
Printed(sym) ==
    /\ run'.click.widget = "getquote"
    /\ ids'.clock = ids.clock + 1
    /\ Present(run'.metric)
    /\ Val(run'.metric).sym = sym
    /\ Val(run'.metric).last.t = "num"

HistoryStep ==
    \A sym \in DOMAIN ss.quote_history \cup DOMAIN ss'.quote_history :
        PrintsOf(ss'.quote_history, sym) =
            IF Printed(sym)
            THEN MostRecent(Append(PrintsOf(ss.quote_history, sym),
                                   <<ids'.clock, Float(Val(run'.metric).last.v)>>), 300)
            ELSE PrintsOf(ss.quote_history, sym)

C12_QuoteHistory == []HistoryBounded /\ [][HistoryStep]_vars

C12_Witness ==
    /\ run.click.widget = "getquote"
    /\ NVDA \in DOMAIN ss.quote_history
    /\ Len(ss.quote_history[NVDA]) = 300
    /\ ss.quote_history[NVDA][300][1] = ids.clock
    /\ ids.clock >= 1
    /\ ss.quote_history[NVDA][1][1] = 2 - 300
    /\ Len(run.pre.quote_history[NVDA]) = 300

====
